---- MODULE Spec2Model ----
(***************************************************************************)
(* Model of src/server.js (takagon0429/line-body-check-bot): the Express   *)
(* /webhook route with the per-event handler handleEvent (lines 1-89), and *)
(* the cloud function lineWebhook (lines 91-133).  The two are separate    *)
(* entry points: one request is modelled, arriving at either of them.      *)
(*                                                                         *)
(* One webhook delivery carrying a batch of events is modelled.  Node runs *)
(* JavaScript to completion between suspension points, so every action is  *)
(* one callback of the event loop together with the microtasks it          *)
(* triggers: the synchronous part of the route (which starts every         *)
(* handler up to its first await), and then one action per completion of   *)
(* an awaited operation or stream event.                                   *)
(*                                                                         *)
(* The texts of the program are Japanese; they are written here in ASCII   *)
(* romanisation, one distinct string per distinct text of the source.      *)
(***************************************************************************)
EXTENDS Integers, Sequences, FiniteSets, TLC

\* Largest number of events in the modelled delivery.
MaxEvents == 2

\* Number of image handlers that ran, and left their files, before the
\* modelled delivery.
MaxEarlier == 1

VARIABLES
    events,          \* req.body.events of the delivery
    signatureValid,  \* whether line.middleware accepts the request signature
    formDataUsable,  \* whether the global FormData has a getHeaders method
    phase,           \* "received" | "refused" | "running" | "acked"
                     \* | "fnAwaitReply" | "fnResponded"
    httpRes,         \* "none" | "200" | "error": the response of the route
    allState,        \* state of the Promise.all promise
    pc,              \* position of each handler invocation
    branch,          \* which replyMessage call of the handler was issued
    filename,        \* uuid of each handler's file, 0 when none
    nextUuid,        \* source of uuidv4 values
    stream,          \* state of each handler's write stream
    listening,       \* finish/error listeners attached to the write stream
    streamData,      \* state of each handler's content stream
    files,           \* names of the files that exist in IMAGE_DIR
    fetches,         \* log of getMessageContent calls (message ids)
    posts,           \* log of axios.post calls (file uploaded), by file name
    response,        \* outcome of each handler's axios.post
    replyLog,        \* log of reply calls, by reply token
    errorLog,        \* number of console.error lines of each handler
    crashed,         \* the process died of an uncaught exception
    entry,           \* "express" | "function": where the request arrives
    sent,            \* log of the responses lineWebhook sent
    writeLog         \* log of fs.createWriteStream calls (file names)

vars == <<events, signatureValid, formDataUsable, phase, httpRes, allState,
          pc, branch, filename, nextUuid, stream, listening, streamData,
          files, fetches, posts, response, replyLog, errorLog, crashed,
          entry, sent, writeLog>>

----------------------------------------------------------------------------
\* Texts

\* "Gazou wo soushin shite kudasai" + camera emoji (line 29)
PromptText == "Gazou wo soushin shite kudasai [camera]"

\* "Shindan ni shippai shimashita. Gazou ga tadashiku yomikomemasen deshita." (line 70)
FailureText == "Shindan ni shippai shimashita. Gazou ga tadashiku yomikomemasen deshita."

\* JavaScript values read from a result: a number, or the value undefined
\* that a missing property yields.
Undefined == [defined |-> FALSE, num |-> 0]

Number(n) == [defined |-> TRUE, num |-> n]

Digit(d) ==
    CASE d = 0 -> "0" [] d = 1 -> "1" [] d = 2 -> "2" [] d = 3 -> "3"
      [] d = 4 -> "4" [] d = 5 -> "5" [] d = 6 -> "6" [] d = 7 -> "7"
      [] d = 8 -> "8" [] d = 9 -> "9"

RECURSIVE NatToString(_)
NatToString(n) ==
    IF n < 10 THEN Digit(n) ELSE NatToString(n \div 10) \o Digit(n % 10)

\* Conversion of a value inside a template literal: a number prints in
\* decimal, undefined prints as the word "undefined".
TemplateString(v) ==
    IF ~v.defined THEN "undefined"
    ELSE IF v.num < 0 THEN "-" \o NatToString(0 - v.num) ELSE NatToString(v.num)

\* The five keys of the analysis result, in ASCII romanisation.
KeyPosture == "shiseiScore"
KeyBalance == "bodyBalanceScore"
KeyMuscleFat == "kinnikuShibouScore"
KeyFashion == "fashionBaeScore"
KeyOverall == "zentaiInshouScore"

ScoreKeys == {KeyPosture, KeyBalance, KeyMuscleFat, KeyFashion, KeyOverall}

\* res[key] in JavaScript for the bodies axios can hand over: an object
\* (a function on the keys it has), or a string (a body that did not parse
\* as JSON), whose named properties are undefined.
Prop(res, key) ==
    IF res.kind = "object" /\ key \in DOMAIN res.obj THEN Number(res.obj[key])
    ELSE Undefined

\* A formatResult whose fashion and overall lines read each other's key.
formatResultSwapped(res) ==
    "# Shisei: " \o TemplateString(Prop(res, KeyPosture)) \o " / 10\n" \o
    "# Body balance: " \o TemplateString(Prop(res, KeyBalance)) \o " / 10\n" \o
    "# Kinniku shibou no tsukikata: " \o TemplateString(Prop(res, KeyMuscleFat)) \o " / 10\n" \o
    "# Fashion bae do: " \o TemplateString(Prop(res, KeyOverall)) \o " / 10\n" \o
    "# Zentai inshou: " \o TemplateString(Prop(res, KeyFashion)) \o " / 10\n\n" \o
    "* Kaizen advice: shisei wo totonoereba inshou UP!"

formatResult(res) ==
    "# Shisei: " \o TemplateString(Prop(res, KeyPosture)) \o " / 10\n" \o
    "# Body balance: " \o TemplateString(Prop(res, KeyBalance)) \o " / 10\n" \o
    "# Kinniku shibou no tsukikata: " \o TemplateString(Prop(res, KeyMuscleFat)) \o " / 10\n" \o
    "# Fashion bae do: " \o TemplateString(Prop(res, KeyFashion)) \o " / 10\n" \o
    "# Zentai inshou: " \o TemplateString(Prop(res, KeyOverall)) \o " / 10\n\n" \o
    "* Kaizen advice: shisei wo totonoereba inshou UP!"

\* formatResult throws a TypeError when it reads a property of null.
formatResultThrows(res) == res.kind = "null"

----------------------------------------------------------------------------
\* Inputs

NoMessage == [type |-> "none", id |-> 0]

ImageMessage(i) ==
    [type |-> "message", message |-> [type |-> "image", id |-> i], replyToken |-> i]

TextMessage(i) ==
    [type |-> "message", message |-> [type |-> "text", id |-> i], replyToken |-> i]

FollowEvent(i) ==
    [type |-> "follow", message |-> NoMessage, replyToken |-> i]

\* The deliveries of at most MaxEvents events; the platform gives every
\* event its own reply token and every message its own id.
Deliveries ==
    UNION { { s \in [1..n -> UNION { {ImageMessage(i), TextMessage(i), FollowEvent(i)} : i \in 1..n }] :
                \A i \in 1..n : s[i].replyToken = i }
            : n \in 0..MaxEvents }

\* Bodies the analysis endpoint can answer with, as axios hands them over in
\* response.data: a parsed JSON object, the raw string of a body that is
\* not JSON, or null.
WellFormedA ==
    [kind |-> "object",
     obj |-> (KeyPosture :> 7 @@ KeyBalance :> 8 @@ KeyMuscleFat :> 6 @@
              KeyFashion :> 9 @@ KeyOverall :> 7)]

WellFormedB ==
    [kind |-> "object",
     obj |-> (KeyPosture :> 0 @@ KeyBalance :> 10 @@ KeyMuscleFat :> 3 @@
              KeyFashion :> 4 @@ KeyOverall :> 5)]

MissingKey ==
    [kind |-> "object",
     obj |-> (KeyPosture :> 7 @@ KeyBalance :> 8 @@ KeyMuscleFat :> 6 @@
              KeyOverall :> 7)]

NonJsonBody == [kind |-> "string", obj |-> <<>>]

NullBody == [kind |-> "null", obj |-> <<>>]

Bodies == {WellFormedA, WellFormedB, MissingKey, NonJsonBody, NullBody}

\* Outcomes of the analysis POST: the connection drops, or a response with
\* a status and a body arrives.
NoResponse == [kind |-> "none", status |-> 0, data |-> NullBody]

Dropped == [kind |-> "dropped", status |-> 0, data |-> NullBody]

HttpResponse(status, data) == [kind |-> "http", status |-> status, data |-> data]

PostOutcomes ==
    {Dropped, HttpResponse(500, NonJsonBody), HttpResponse(204, NonJsonBody)}
        \cup { HttpResponse(200, d) : d \in Bodies }

\* axios rejects a response whose status is outside 200..299
\* (its default validateStatus).
AxiosRejects(r) == r.kind = "dropped" \/ r.status < 200 \/ r.status >= 300

----------------------------------------------------------------------------
\* State

Ids == 1..Len(events)

\* A handler that tests only event.type before taking the image branch.
IsImageEventTypeOnly(event) == event.type = "message"

IsImageEvent(event) ==
    ~(event.type # "message" \/ event.message.type # "image")

ImageIds == { i \in Ids : IsImageEvent(events[i]) }

Settled(i) == pc[i] \in {"done", "rejected"}

Init ==
    /\ events \in Deliveries
    /\ signatureValid \in BOOLEAN
    /\ formDataUsable \in BOOLEAN
    /\ phase = "received"
    /\ httpRes = "none"
    /\ allState = "none"
    /\ pc = [i \in Ids |-> "idle"]
    /\ branch = [i \in Ids |-> "none"]
    /\ filename = [i \in Ids |-> 0]
    /\ nextUuid = MaxEarlier + 1
    /\ stream = [i \in Ids |-> "none"]
    /\ listening = [i \in Ids |-> FALSE]
    /\ streamData = [i \in Ids |-> "none"]
    /\ files = 1..(nextUuid - 1)
    /\ fetches = <<>>
    /\ posts = <<>>
    /\ response = [i \in Ids |-> NoResponse]
    /\ replyLog = <<>>
    /\ errorLog = [i \in Ids |-> 0]
    /\ crashed = FALSE
    /\ entry \in {"express", "function"}
    /\ sent = <<>>
    /\ writeLog = [k \in 1..(nextUuid - 1) |-> k]

----------------------------------------------------------------------------
\* The handler, cut at its suspension points

\* The log of reply calls with call c added.  The log keeps the calls made
\* with one reply token in the order they were made; the order among calls
\* of different events is not recorded: the log is arranged by reply token.
RecordReply(log, c) ==
    SelectSeq(log, LAMBDA d : d.replyToken <= c.replyToken) \o <<c>> \o
    SelectSeq(log, LAMBDA d : d.replyToken > c.replyToken)

\* The log of analysis POSTs with the upload of file f added, arranged by
\* file name in the same way.
RecordPost(log, f) ==
    SelectSeq(log, LAMBDA g : g <= f) \o <<f>> \o SelectSeq(log, LAMBDA g : g > f)

\* A call of client.replyMessage(event.replyToken, {type: "text", text}).
ReplyCall(i, text) == [replyToken |-> events[i].replyToken, text |-> text]

\* A file name derived from the message id instead of a fresh uuid.
UuidFromMessageId(i) == events[i].message.id

\* uuidv4() of the i-th handler when the handlers start in the order of the
\* batch: a value no earlier call returned.
UuidFor(i) == nextUuid + Cardinality({ j \in ImageIds : j < i })

RECURSIVE PromptCalls(_)
\* The reply calls of the non-image events among the first n events
\* (lines 26-31), in the order the handlers are started.
PromptCalls(n) ==
    IF n = 0 THEN <<>>
    ELSE IF IsImageEvent(events[n]) THEN PromptCalls(n - 1)
    ELSE Append(PromptCalls(n - 1), ReplyCall(n, PromptText))

RECURSIVE ContentCalls(_)
\* The getMessageContent calls of the image events among the first n events
\* (line 40).
ContentCalls(n) ==
    IF n = 0 THEN <<>>
    ELSE IF IsImageEvent(events[n]) THEN Append(ContentCalls(n - 1), events[n].message.id)
    ELSE ContentCalls(n - 1)

RECURSIVE WriteCalls(_)
\* The fs.createWriteStream calls of the image events among the first n
\* events (lines 35-37): one per handler, on the file name it generated.
WriteCalls(n) ==
    IF n = 0 THEN <<>>
    ELSE IF IsImageEvent(events[n]) THEN Append(WriteCalls(n - 1), UuidFor(n))
    ELSE WriteCalls(n - 1)

\* A combinator that is fulfilled with the first fulfilled promise.
AnyFulfilled(p) == \E i \in DOMAIN p : p[i] = "done"

\* Promise.all(promises) is fulfilled when every promise is fulfilled.
AllFulfilled(p) == \A i \in DOMAIN p : p[i] = "done"

\* line.middleware(config) refuses a request whose signature does not
\* verify: the route's callback does not run and Express answers the error.
MiddlewareRefuses ==
    /\ entry = "express"
    /\ phase = "received"
    /\ ~signatureValid
    /\ phase' = "refused"
    /\ httpRes' = "error"
    /\ UNCHANGED <<events, signatureValid, formDataUsable, entry, sent, writeLog,
                   allState, pc, branch,
                   filename, nextUuid, stream, listening, streamData, files,
                   fetches, posts, response, replyLog, errorLog, crashed>>

\* The route's callback: req.body.events.map(handleEvent) runs every handler
\* up to its first suspension.  A non-image event issues its reply call
\* (lines 26-31); an image event generates its file name, creates the write
\* stream and requests the content (lines 34-40).  Promise.all of an empty
\* batch is fulfilled at once and res.end() runs.
Webhook ==
    /\ entry = "express"
    /\ phase = "received"
    /\ signatureValid
    /\ pc' = [i \in Ids |-> IF IsImageEvent(events[i]) THEN "awaitContent" ELSE "awaitReply"]
    /\ branch' = [i \in Ids |-> IF IsImageEvent(events[i]) THEN "none" ELSE "prompt"]
    /\ filename' = [i \in Ids |-> IF IsImageEvent(events[i]) THEN UuidFor(i) ELSE 0]
    /\ nextUuid' = nextUuid + Cardinality(ImageIds)
    /\ stream' = [i \in Ids |-> IF IsImageEvent(events[i]) THEN "opening" ELSE "none"]
    /\ writeLog' = writeLog \o WriteCalls(Len(events))
    /\ fetches' = fetches \o ContentCalls(Len(events))
    /\ replyLog' = replyLog \o PromptCalls(Len(events))
    /\ IF AllFulfilled(pc')
          THEN allState' = "fulfilled" /\ httpRes' = "200" /\ phase' = "acked"
          ELSE allState' = "pending" /\ httpRes' = httpRes /\ phase' = "running"
    /\ UNCHANGED <<events, signatureValid, formDataUsable, entry, sent,
                   listening, streamData,
                   files, posts, response, errorLog, crashed>>

\* The catch block of lines 66-72, entered by handler i: one console.error
\* line, then the reply call with the failure text, which the handler
\* returns.
CatchBlock(i) ==
    /\ errorLog' = [errorLog EXCEPT ![i] = @ + 1]
    /\ replyLog' = RecordReply(replyLog, ReplyCall(i, FailureText))
    /\ branch' = [branch EXCEPT ![i] = "catch"]
    /\ pc' = [pc EXCEPT ![i] = "awaitReply"]

\* The write stream of line 37 opens its file: the file exists from now on.
StreamOpens(i) ==
    /\ ~crashed
    /\ stream[i] = "opening"
    /\ stream' = [stream EXCEPT ![i] = "open"]
    /\ files' = files \cup {filename[i]}
    /\ UNCHANGED <<events, signatureValid, formDataUsable, entry, sent, writeLog,
                   phase, httpRes, allState,
                   pc, branch, filename, nextUuid, listening, streamData,
                   fetches, posts, response, replyLog, errorLog, crashed>>

\* The write stream emits "error" (the open fails, or a write fails while
\* content is flowing into it) after line 45 attached the listener: the
\* awaited promise is rejected and the catch block runs.
StreamErrorCaught(i) ==
    /\ ~crashed
    /\ listening[i]
    /\ stream[i] = "opening" \/ (stream[i] = "open" /\ streamData[i] = "flowing")
    /\ pc[i] = "awaitWrite"
    /\ stream' = [stream EXCEPT ![i] = "errored"]
    /\ CatchBlock(i)
    /\ UNCHANGED <<events, signatureValid, formDataUsable, entry, sent, writeLog,
                   phase, httpRes, allState,
                   filename, nextUuid, listening, streamData, files,
                   fetches, posts, response, crashed>>

\* The open of the write stream fails while no "error" listener is attached
\* (the handler is still waiting at line 40, or has left through the catch
\* block after the content request failed): an "error" event without a
\* listener is thrown as an uncaught exception, which ends the process.
StreamErrorUncaught(i) ==
    /\ ~crashed
    /\ ~listening[i]
    /\ stream[i] = "opening"
    /\ stream' = [stream EXCEPT ![i] = "errored"]
    /\ crashed' = TRUE
    /\ UNCHANGED <<events, signatureValid, formDataUsable, entry, sent, writeLog,
                   phase, httpRes, allState,
                   pc, branch, filename, nextUuid, listening, streamData, files,
                   fetches, posts, response, replyLog, errorLog>>

\* A handler that does not await the finish/error promise of lines 43-46:
\* it goes on to the upload as soon as the content stream is piped.
ContentResolvesNoWait(i) ==
    /\ ~crashed
    /\ pc[i] = "awaitContent"
    /\ streamData' = [streamData EXCEPT ![i] = "flowing"]
    /\ listening' = [listening EXCEPT ![i] = TRUE]
    /\ IF formDataUsable
          THEN /\ posts' = RecordPost(posts, filename[i])
               /\ pc' = [pc EXCEPT ![i] = "awaitPost"]
               /\ UNCHANGED <<branch, replyLog, errorLog>>
          ELSE /\ CatchBlock(i)
               /\ UNCHANGED posts
    /\ UNCHANGED <<events, signatureValid, formDataUsable, entry, sent, writeLog,
                   phase, httpRes, allState, filename, nextUuid, stream, files,
                   fetches, response, crashed>>

\* client.getMessageContent is fulfilled with the content stream (line 40):
\* it is piped into the write stream (41) and the handler waits for
\* "finish" or "error" of the write stream (43-46).
ContentResolves(i) ==
    /\ ~crashed
    /\ pc[i] = "awaitContent"
    /\ streamData' = [streamData EXCEPT ![i] = "flowing"]
    /\ listening' = [listening EXCEPT ![i] = TRUE]
    /\ pc' = [pc EXCEPT ![i] = "awaitWrite"]
    /\ UNCHANGED <<events, signatureValid, formDataUsable, entry, sent, writeLog,
                   phase, httpRes, allState,
                   branch, filename, nextUuid, stream, files,
                   fetches, posts, response, replyLog, errorLog, crashed>>

\* A catch block that also removes the handler's file.
ContentRejectsUnlink(i) ==
    /\ ~crashed
    /\ pc[i] = "awaitContent"
    /\ CatchBlock(i)
    /\ files' = files \ {filename[i]}
    /\ UNCHANGED <<events, signatureValid, formDataUsable, entry, sent, writeLog,
                   phase, httpRes, allState, filename, nextUuid, stream, listening,
                   streamData, fetches, posts, response, crashed>>

\* client.getMessageContent is rejected (line 40): the catch block runs.
\* The write stream stays as it is, without listeners.
ContentRejects(i) ==
    /\ ~crashed
    /\ pc[i] = "awaitContent"
    /\ CatchBlock(i)
    /\ UNCHANGED <<events, signatureValid, formDataUsable, entry, sent, writeLog,
                   phase, httpRes, allState,
                   filename, nextUuid, stream, listening, streamData, files,
                   fetches, posts, response, crashed>>

\* The content stream fails part-way.  pipe() neither ends the write stream
\* nor forwards the error to it, and the handler attached no listener to
\* the content stream: the write stream emits neither "finish" nor "error",
\* and the handler stays at line 43.  Whether the lost "error" event is
\* also thrown as an uncaught exception depends on the class of the stream
\* (an http.IncomingMessage keeps silent without listeners, a plain
\* Readable throws).
ContentFails(i) ==
    /\ ~crashed
    /\ pc[i] = "awaitWrite"
    /\ streamData[i] = "flowing"
    /\ streamData' = [streamData EXCEPT ![i] = "failed"]
    /\ \E throws \in BOOLEAN : crashed' = throws
    /\ UNCHANGED <<events, signatureValid, formDataUsable, entry, sent, writeLog,
                   phase, httpRes, allState,
                   pc, branch, filename, nextUuid, stream, listening, files,
                   fetches, posts, response, replyLog, errorLog>>

\* The content stream ends and the write stream emits "finish": the handler
\* resumes at line 49.  FormData is not required by the source: it is the
\* runtime's global, if any.  Without a FormData that has getHeaders, line
\* 49 or line 55 throws before axios.post is called and the catch block
\* runs; otherwise the POST is issued (52-56).
WriteFinishes(i) ==
    /\ ~crashed
    /\ pc[i] = "awaitWrite"
    /\ streamData[i] = "flowing"
    /\ stream[i] = "open"
    /\ streamData' = [streamData EXCEPT ![i] = "ended"]
    /\ stream' = [stream EXCEPT ![i] = "finished"]
    /\ IF formDataUsable
          THEN /\ posts' = RecordPost(posts, filename[i])
               /\ pc' = [pc EXCEPT ![i] = "awaitPost"]
               /\ UNCHANGED <<branch, replyLog, errorLog>>
          ELSE /\ CatchBlock(i)
               /\ UNCHANGED posts
    /\ UNCHANGED <<events, signatureValid, formDataUsable, entry, sent, writeLog,
                   phase, httpRes, allState,
                   filename, nextUuid, listening, files, fetches, response, crashed>>

\* A handler that issues the POST a second time when the first is rejected.
PostSettlesRetry(i, r) ==
    /\ ~crashed
    /\ pc[i] = "awaitPost"
    /\ response' = [response EXCEPT ![i] = r]
    /\ IF AxiosRejects(r) /\ Cardinality({ k \in DOMAIN posts : posts[k] = filename[i] }) < 2
          THEN /\ posts' = RecordPost(posts, filename[i])
               /\ UNCHANGED <<pc, branch, replyLog, errorLog>>
          ELSE /\ UNCHANGED posts
               /\ IF AxiosRejects(r) \/ formatResultThrows(r.data)
                     THEN CatchBlock(i)
                     ELSE /\ replyLog' = RecordReply(replyLog, ReplyCall(i, formatResult(r.data)))
                          /\ branch' = [branch EXCEPT ![i] = "try"]
                          /\ pc' = [pc EXCEPT ![i] = "awaitReply"]
                          /\ UNCHANGED errorLog
    /\ UNCHANGED <<events, signatureValid, formDataUsable, entry, sent, writeLog,
                   phase, httpRes, allState, filename, nextUuid, stream, listening,
                   streamData, files, fetches, crashed>>

\* axios.post settles with outcome r (line 52).  A rejection, and a
\* TypeError of formatResult, run the catch block; otherwise the formatted
\* text is sent with the reply call the handler returns (58-65).
PostSettles(i, r) ==
    /\ ~crashed
    /\ pc[i] = "awaitPost"
    /\ response' = [response EXCEPT ![i] = r]
    /\ IF AxiosRejects(r) \/ formatResultThrows(r.data)
          THEN CatchBlock(i)
          ELSE /\ replyLog' = RecordReply(replyLog, ReplyCall(i, formatResult(r.data)))
               /\ branch' = [branch EXCEPT ![i] = "try"]
               /\ pc' = [pc EXCEPT ![i] = "awaitReply"]
               /\ UNCHANGED errorLog
    /\ UNCHANGED <<events, signatureValid, formDataUsable, entry, sent, writeLog,
                   phase, httpRes, allState,
                   filename, nextUuid, stream, listening, streamData, files,
                   fetches, posts, crashed>>

\* A handler that awaits the reply call of line 62 inside the try.
RejectionCaughtInTry(b) == b = "try"

\* The rejections of a reply call that the catch block of lines 66-72
\* catches, by the place of the call: none.  The call of line 27 is outside
\* the try, the call of line 62 is returned without being awaited, and the
\* call of line 68 is made by the catch block itself.
RejectionCaught(b) == FALSE

\* The reply call the handler returned is fulfilled: so is the handler.
\* When it is the last of the batch, Promise.all is fulfilled and its then
\* callback runs res.end() (line 22).
ReplyResolves(i) ==
    /\ ~crashed
    /\ pc[i] = "awaitReply"
    /\ pc' = [pc EXCEPT ![i] = "done"]
    /\ IF allState = "pending" /\ AllFulfilled(pc')
          THEN allState' = "fulfilled" /\ httpRes' = "200" /\ phase' = "acked"
          ELSE UNCHANGED <<allState, httpRes, phase>>
    /\ UNCHANGED <<events, signatureValid, formDataUsable, entry, sent, writeLog,
                   branch, filename, nextUuid,
                   stream, listening, streamData, files, fetches, posts,
                   response, replyLog, errorLog, crashed>>

\* The reply call the handler returned is rejected: so is the handler.
\* The first rejection rejects Promise.all, whose then() promise has no
\* rejection handler (line 22): res.end() never runs, and the unhandled
\* rejection ends the process or is only reported, by the runtime's
\* unhandled-rejections mode.
ReplyRejects(i) ==
    /\ ~crashed
    /\ pc[i] = "awaitReply"
    /\ IF RejectionCaught(branch[i])
          THEN /\ CatchBlock(i)
               /\ UNCHANGED <<allState, crashed>>
          ELSE /\ pc' = [pc EXCEPT ![i] = "rejected"]
               /\ IF allState = "pending"
                     THEN allState' = "rejected" /\ (\E throws \in BOOLEAN : crashed' = throws)
                     ELSE UNCHANGED <<allState, crashed>>
               /\ UNCHANGED <<branch, replyLog, errorLog>>
    /\ UNCHANGED <<events, signatureValid, formDataUsable, entry, sent, writeLog,
                   phase, httpRes, filename,
                   nextUuid, stream, listening, streamData, files, fetches,
                   posts, response>>

----------------------------------------------------------------------------
\* The cloud function lineWebhook (lines 98-133)

\* "Shashin wo uketorimashita! Taikei shindan wo kaishi shimasu ..." (line 116)
ReceivedText == "Shashin wo uketorimashita! Taikei shindan wo kaishi shimasu"

\* res.status(200).send("Not image") of line 102.
NotImageResponse == [status |-> "200", body |-> "Not image"]

\* res.status(200).send("OK") of line 128.
OkResponse == [status |-> "200", body |-> "OK"]

\* A catch block that answers the failure with status 200.
ErrorResponseOk == [status |-> "200", body |-> "Error"]

\* res.status(500).send("Error") of line 131.
ErrorResponse == [status |-> "500", body |-> "Error"]

\* req.body.events?.[0] is absent (line 99).
NoFirstEvent == Len(events) = 0

\* The function is called with the request: no check of the signature is
\* made.  Only the first event is looked at (99).  When it is absent or not
\* an image message the function answers at once (101-103); otherwise it
\* posts one reply with the event's token to the reply API and waits
\* (105-126).
LineWebhook ==
    /\ entry = "function"
    /\ phase = "received"
    /\ IF NoFirstEvent \/ events[1].type # "message" \/ events[1].message.type # "image"
          THEN /\ sent' = Append(sent, NotImageResponse)
               /\ phase' = "fnResponded"
               /\ UNCHANGED replyLog
          ELSE /\ replyLog' = RecordReply(replyLog, [replyToken |-> events[1].replyToken,
                                                text |-> ReceivedText])
               /\ phase' = "fnAwaitReply"
               /\ UNCHANGED sent
    /\ UNCHANGED <<events, signatureValid, formDataUsable, entry, writeLog, httpRes,
                   allState, pc, branch, filename, nextUuid, stream, listening,
                   streamData, files, fetches, posts, response, errorLog, crashed>>

\* The reply post is fulfilled: the function answers 200 "OK" (line 128).
LineWebhookReplied ==
    /\ phase = "fnAwaitReply"
    /\ sent' = Append(sent, OkResponse)
    /\ phase' = "fnResponded"
    /\ UNCHANGED <<events, signatureValid, formDataUsable, entry, writeLog, httpRes,
                   allState, pc, branch, filename, nextUuid, stream, listening,
                   streamData, files, fetches, posts, response, replyLog,
                   errorLog, crashed>>

\* The reply post is rejected: the catch block logs the error and answers
\* 500 "Error" (lines 129-132).
LineWebhookReplyFails ==
    /\ phase = "fnAwaitReply"
    /\ errorLog' = [errorLog EXCEPT ![1] = @ + 1]
    /\ sent' = Append(sent, ErrorResponse)
    /\ phase' = "fnResponded"
    /\ UNCHANGED <<events, signatureValid, formDataUsable, entry, writeLog, httpRes,
                   allState, pc, branch, filename, nextUuid, stream, listening,
                   streamData, files, fetches, posts, response, replyLog, crashed>>

Next ==
    \/ LineWebhook
    \/ LineWebhookReplied
    \/ LineWebhookReplyFails
    \/ MiddlewareRefuses
    \/ Webhook
    \/ \E i \in Ids : StreamOpens(i)
    \/ \E i \in Ids : StreamErrorCaught(i)
    \/ \E i \in Ids : StreamErrorUncaught(i)
    \/ \E i \in Ids : ContentResolves(i)
    \/ \E i \in Ids : ContentRejects(i)
    \/ \E i \in Ids : ContentFails(i)
    \/ \E i \in Ids : WriteFinishes(i)
    \/ \E i \in Ids : \E r \in PostOutcomes : PostSettles(i, r)
    \/ \E i \in Ids : ReplyResolves(i)
    \/ \E i \in Ids : ReplyRejects(i)

Spec == Init /\ [][Next]_vars

\* Every callback that is due runs: the event loop does not stop while an
\* awaited operation or a stream can still complete or fail.
FairSpec == Spec /\ WF_vars(Next)

TypeOK ==
    /\ phase \in {"received", "refused", "running", "acked",
                  "fnAwaitReply", "fnResponded"}
    /\ entry \in {"express", "function"}
    /\ httpRes \in {"none", "200", "error"}
    /\ allState \in {"none", "pending", "fulfilled", "rejected"}
    /\ \A i \in Ids :
        /\ pc[i] \in {"idle", "awaitContent", "awaitWrite", "awaitPost",
                      "awaitReply", "done", "rejected"}
        /\ branch[i] \in {"none", "prompt", "try", "catch"}
        /\ stream[i] \in {"none", "opening", "open", "finished", "errored"}
        /\ streamData[i] \in {"none", "flowing", "ended", "failed"}

----------------------------------------------------------------------------
\* Properties

\* The reply calls made with the reply token of event i, in order.
RepliesTo(i) == SelectSeq(replyLog, LAMBDA c : c.replyToken = events[i].replyToken)

\* Event i is not an image message, in the words of the specification.
NonImage(i) == events[i].type # "message" \/ events[i].message.type # "image"

Invoked(i) == pc[i] # "idle"

Running(i) == pc[i] \in {"awaitContent", "awaitWrite", "awaitPost", "awaitReply"}

\* The template of the success reply with scores p, b, m, f, o.
TemplateText(p, b, m, f, o) ==
    "# Shisei: " \o ToString(p) \o " / 10\n" \o
    "# Body balance: " \o ToString(b) \o " / 10\n" \o
    "# Kinniku shibou no tsukikata: " \o ToString(m) \o " / 10\n" \o
    "# Fashion bae do: " \o ToString(f) \o " / 10\n" \o
    "# Zentai inshou: " \o ToString(o) \o " / 10\n\n* Kaizen advice: shisei wo totonoereba inshou UP!"

\* The analysis endpoint answered handler i with a well-formed result.
GotWellFormed(i) ==
    /\ response[i].kind = "http"
    /\ response[i].status = 200
    /\ response[i].data.kind = "object"
    /\ DOMAIN response[i].data.obj = ScoreKeys

\* The analysis endpoint answered handler i with a malformed result: a body
\* that is not JSON, or an object that lacks one of the five keys.
GotMalformed(i) ==
    /\ response[i].kind = "http"
    /\ response[i].status = 200
    /\ \/ response[i].data.kind = "string"
       \/ response[i].data.kind = "object" /\ DOMAIN response[i].data.obj # ScoreKeys

\* C1: at every moment at most one reply call has been made with the reply
\* token of an event, and when the event's handler has returned or failed
\* exactly one has been made.
C1_ExactlyOneReplyPerEvent ==
    \A i \in Ids :
        /\ Len(RepliesTo(i)) <= 1
        /\ Settled(i) => Len(RepliesTo(i)) = 1

\* An image handler failed because the reply call of its catch block was
\* rejected, next to a handler that succeeded.
C1_Witness ==
    \E i, j \in Ids :
        /\ pc[i] = "rejected" /\ branch[i] = "catch" /\ Len(RepliesTo(i)) = 1
        /\ pc[j] = "done" /\ branch[j] = "try" /\ Len(RepliesTo(j)) = 1

\* C2: with every due callback eventually running, and the process staying
\* up, every invoked handler eventually issues its reply.
C2_EveryHandlerEventuallyReplies ==
    \A i \in 1..MaxEvents :
        []((i \in Ids /\ Invoked(i)) => <>((i \in Ids /\ Len(RepliesTo(i)) >= 1) \/ crashed))

\* C3: when the download, the write or the analysis POST of an image event
\* failed (dropped connection, non-200 response, body that is not JSON) and
\* the handler has settled, its one reply is the failure text.
C3_FailureGivesFailureText ==
    \A i \in Ids :
        ( /\ ~NonImage(i)
          /\ Settled(i)
          /\ \/ branch[i] = "catch" /\ streamData[i] = "none"
             \/ stream[i] = "errored"
             \/ response[i].kind = "dropped"
             \/ response[i].kind = "http" /\ response[i].status # 200
             \/ response[i].kind = "http" /\ response[i].data.kind = "string" )
        => RepliesTo(i) = <<[replyToken |-> events[i].replyToken, text |-> FailureText]>>

\* C4: a non-image event whose handler was invoked got exactly the prompt
\* text as its reply, and no content was requested, no file name generated,
\* no stream or file created and no analysis POST made for it.
C4_NonImageOnlyPrompt ==
    \A i \in Ids :
        (NonImage(i) /\ Invoked(i)) =>
            /\ RepliesTo(i) = <<[replyToken |-> events[i].replyToken, text |-> PromptText]>>
            /\ \A k \in DOMAIN fetches : fetches[k] # events[i].message.id
            /\ Len(fetches) = Cardinality({ j \in Ids : ~NonImage(j) })
            /\ filename[i] = 0
            /\ stream[i] = "none"
            /\ streamData[i] = "none"
            /\ \A k \in DOMAIN writeLog : writeLog[k] # filename[i]
            /\ files \subseteq { writeLog[k] : k \in DOMAIN writeLog }
            /\ \A k \in DOMAIN posts : posts[k] \in { filename[j] : j \in { l \in Ids : ~NonImage(l) } }
            /\ response[i] = NoResponse

\* A text message and a non-message event were both answered.
C4_Witness ==
    \E i, j \in Ids :
        /\ events[i].type = "message" /\ events[i].message.type = "text" /\ pc[i] = "done"
        /\ events[j].type # "message" /\ Len(RepliesTo(j)) = 1

\* C5: when the analysis endpoint answered an image event with a well-formed
\* result, the event's one reply is the template with the five scores of
\* that result in the order posture, balance, muscle/fat, fashion, overall.
C5_WellFormedGivesTemplate ==
    \A i \in Ids :
        GotWellFormed(i) =>
            RepliesTo(i) =
                <<[replyToken |-> events[i].replyToken,
                   text |-> TemplateText(response[i].data.obj[KeyPosture],
                                         response[i].data.obj[KeyBalance],
                                         response[i].data.obj[KeyMuscleFat],
                                         response[i].data.obj[KeyFashion],
                                         response[i].data.obj[KeyOverall])]>>

\* The end-to-end example of the specification: scores 7, 8, 6, 9, 7.
C5_Witness ==
    \E i \in Ids :
        /\ response[i] = HttpResponse(200, WellFormedA)
        /\ pc[i] = "done"
        /\ RepliesTo(i)[1].text =
             "# Shisei: 7 / 10\n# Body balance: 8 / 10\n# Kinniku shibou no tsukikata: 6 / 10\n# Fashion bae do: 9 / 10\n# Zentai inshou: 7 / 10\n\n* Kaizen advice: shisei wo totonoereba inshou UP!"

\* The text handler i replies with by the specification: the prompt for a
\* non-image event, the failure text unless a well-formed result arrived,
\* and else the template with the result's scores.
OwnText(i) ==
    IF NonImage(i) THEN PromptText
    ELSE IF GotWellFormed(i)
         THEN TemplateText(response[i].data.obj[KeyPosture],
                           response[i].data.obj[KeyBalance],
                           response[i].data.obj[KeyMuscleFat],
                           response[i].data.obj[KeyFashion],
                           response[i].data.obj[KeyOverall])
         ELSE FailureText

\* C6: once nothing more can happen for an accepted delivery of N events,
\* exactly N replies have been issued, one per event, each with the reply
\* token and the result of its own event.
C6_OneOwnReplyPerEvent ==
    (phase \in {"running", "acked"} /\ ~ENABLED Next) =>
        /\ Len(replyLog) = Len(events)
        /\ \A i \in Ids :
              RepliesTo(i) = <<[replyToken |-> events[i].replyToken, text |-> OwnText(i)]>>

\* C7: once every handler of an accepted delivery has settled, succeeded or
\* failed, the delivery has been acknowledged with status 200.
C7_AlwaysAcknowledged ==
    (phase \in {"running", "acked"} /\ \A i \in Ids : Settled(i)) => httpRes = "200"

\* C8: whenever the HTTP response of the delivery has been sent, no handler
\* of the delivery is still running.
C8_ResponseAfterAllSettled ==
    httpRes # "none" => \A i \in Ids : ~Running(i)

\* A batch of two or more events, an image event among them, was
\* acknowledged after all its handlers had finished.
C8_Witness ==
    /\ httpRes = "200"
    /\ Len(events) >= 2
    /\ \E i \in Ids : ~NonImage(i) /\ pc[i] = "done"
    /\ \A i \in Ids : pc[i] = "done"

\* C9: no handler ends in a rejected promise, no rejection is left
\* unhandled and the process does not crash.
C9_NoRejectionNoCrash ==
    /\ \A i \in Ids : pc[i] # "rejected"
    /\ allState # "rejected"
    /\ ~crashed

\* C10: when the analysis endpoint answered with a malformed result, the
\* reply of the event is the failure text.
C10_MalformedGivesFailureText ==
    \A i \in Ids :
        GotMalformed(i) =>
            RepliesTo(i) = <<[replyToken |-> events[i].replyToken, text |-> FailureText]>>

\* C11: for a request whose signature does not verify, no reply call, no
\* content request, no file name or write stream and no analysis POST is
\* ever made, whichever entry point the request arrives at.
C11_NothingBeforeVerification ==
    ~signatureValid =>
        /\ replyLog = <<>>
        /\ fetches = <<>>
        /\ posts = <<>>
        /\ \A i \in Ids : stream[i] = "none" /\ filename[i] = 0

\* C12: no two createWriteStream calls, of this delivery or of earlier
\* ones, are made on the same file name, and every invoked image handler
\* has made exactly one, on its own name.
C12_OneWriterPerFile ==
    /\ \A k1, k2 \in DOMAIN writeLog : writeLog[k1] = writeLog[k2] => k1 = k2
    /\ \A i \in Ids :
          (~NonImage(i) /\ Invoked(i)) =>
              Cardinality({ k \in DOMAIN writeLog : writeLog[k] = filename[i] }) = 1
    /\ \A i, j \in Ids :
          (~NonImage(i) /\ ~NonImage(j) /\ Invoked(i) /\ Invoked(j) /\ i # j)
              => filename[i] # filename[j]

\* Two image events of one batch have both opened their files, next to the
\* file of an earlier delivery.
C12_Witness ==
    \E i, j \in Ids :
        /\ i # j
        /\ stream[i] \in {"open", "finished"} /\ stream[j] \in {"open", "finished"}
        /\ filename[i] \in files /\ filename[j] \in files
        /\ Cardinality(files) >= 3

\* The content request, and the analysis POST, of handler i have been issued.
Fetched(i) == \E k \in DOMAIN fetches : fetches[k] = events[i].message.id

Posted(i) == filename[i] # 0 /\ \E k \in DOMAIN posts : posts[k] = filename[i]

\* C13: in every state the steps a handler has taken are a prefix of
\* content fetch, file write finished, analysis POST, reply: the POST has
\* been issued only if the write stream has finished, the write stream has
\* finished only if the content was fetched and has ended, and the success
\* reply has been issued only if the POST was issued and answered.
C13_StepsInOrder ==
    \A i \in Ids :
        /\ streamData[i] # "none" => Fetched(i)
        /\ stream[i] = "finished" => streamData[i] = "ended"
        /\ Posted(i) => stream[i] = "finished"
        /\ response[i] # NoResponse => Posted(i)
        /\ branch[i] = "try" =>
              /\ response[i].kind = "http"
              /\ Len(RepliesTo(i)) = 1

\* An image handler went through all four steps and succeeded.
C13_Witness ==
    \E i \in Ids :
        /\ pc[i] = "done" /\ branch[i] = "try"
        /\ Fetched(i) /\ stream[i] = "finished" /\ Posted(i)
        /\ GotWellFormed(i)

\* A step of the image branch of handler i has failed: the handler entered
\* its catch block, its write stream emitted an error, or the reply call of
\* step 7 was rejected.
StepFailed(i) ==
    \/ branch[i] = "catch"
    \/ stream[i] = "errored"
    \/ branch[i] = "try" /\ pc[i] = "rejected"

FailureReplied(i) ==
    \E k \in DOMAIN replyLog :
        replyLog[k] = [replyToken |-> events[i].replyToken, text |-> FailureText]

\* C14: when a step of the image branch has failed, the failure of the
\* step-7 reply call included, and the handler has settled, the failure was
\* logged and the failure text was sent as the reply.
C14_EveryFailureCaught ==
    \A i \in Ids :
        (~NonImage(i) /\ Settled(i) /\ StepFailed(i)) =>
            errorLog[i] >= 1 /\ FailureReplied(i)

\* C15: whenever the write stream of a handler has emitted an error, at
\* whatever moment after its creation, the handler has taken it through its
\* wait into the catch block and issued the failure reply.
C15_WriteErrorObserved ==
    \A i \in Ids :
        stream[i] = "errored" =>
            branch[i] = "catch" /\ errorLog[i] >= 1 /\ FailureReplied(i)

\* The numbers of content requests and of analysis POSTs made for event i.
FetchCount(i) ==
    Cardinality({ k \in DOMAIN fetches : fetches[k] = events[i].message.id })

PostCount(i) ==
    IF filename[i] = 0 THEN 0
    ELSE Cardinality({ k \in DOMAIN posts : posts[k] = filename[i] })

\* C16: no step brings the content requests or the analysis POSTs of an
\* event above one, and once a handler has failed (it is in or past its
\* catch block) no step makes a further content request or POST for it.
C16_NoRetries ==
    [][\A i \in Ids :
          /\ FetchCount(i)' <= 1
          /\ PostCount(i)' <= 1
          /\ branch[i] = "catch" =>
                FetchCount(i)' = FetchCount(i) /\ PostCount(i)' = PostCount(i)]_vars

\* Both kinds of failure happened and were final: one handler ended after
\* its content request failed, another after its analysis POST failed.
C16_Witness ==
    \E i, j \in Ids :
        /\ Settled(i) /\ branch[i] = "catch" /\ FetchCount(i) = 1 /\ PostCount(i) = 0
        /\ Settled(j) /\ branch[j] = "catch" /\ FetchCount(j) = 1 /\ PostCount(j) = 1
        /\ response[j] = Dropped

\* C17 as stated: once the handler of an image event has settled and the
\* open of its write stream is over, on whatever path and with the process
\* still up, the file of that handler exists.
C17_OneFilePerImageEvent ==
    \A i \in Ids :
        (~crashed /\ ~NonImage(i) /\ Settled(i) /\ stream[i] # "opening")
            => filename[i] \in files

\* C17 amended: no step removes a file and a step adds at most one; every
\* file was named by one createWriteStream call; the file of a handler
\* exists as soon as its write stream has opened, whatever happens to the
\* download; and a handler whose open fails gets no file.
C17_FilesOnlyGrow ==
    [][ /\ files \subseteq files'
        /\ Cardinality(files' \ files) <= 1
        /\ files' \subseteq { writeLog'[k] : k \in DOMAIN writeLog' }
        /\ \A i \in Ids :
              /\ stream'[i] \in {"open", "finished"} => filename'[i] \in files'
              /\ (stream[i] = "opening" /\ stream'[i] = "errored") => filename'[i] \notin files'
      ]_vars

\* The download failed before any byte was written, the handler has ended,
\* and its file exists; another handler's open failed and left no file.
C17_Witness ==
    \E i, j \in Ids :
        /\ pc[i] = "done" /\ branch[i] = "catch" /\ streamData[i] = "none"
        /\ stream[i] = "open" /\ filename[i] \in files
        /\ Settled(j) /\ stream[j] = "errored" /\ filename[j] \notin files

\* Handler i has met a failure of its own: of its download, its write,
\* its analysis POST or its reply.
OwnFailure(i) ==
    StepFailed(i) \/ pc[i] = "rejected" \/ streamData[i] = "failed"

\* C18: when the handler of one event has failed, the handler of every
\* other event of the batch that has not failed itself and has its
\* analysis POST or its reply still ahead can take its next step.
C18_HandlersIndependent ==
    \A i, j \in Ids :
        (i # j /\ OwnFailure(i) /\ ~OwnFailure(j)) =>
            /\ pc[j] = "awaitContent" => ENABLED ContentResolves(j)
            /\ (pc[j] = "awaitWrite" /\ stream[j] = "open") => ENABLED WriteFinishes(j)
            /\ pc[j] = "awaitPost" => ENABLED PostSettles(j, HttpResponse(200, WellFormedA))

\* The first event of the request is an image message.
FirstIsImage ==
    Len(events) >= 1 /\ events[1].type = "message" /\ events[1].message.type = "image"

\* C19: for a request to lineWebhook, at most one response is sent, and
\* exactly one once the function has finished; at most one reply call is
\* made, and only with the token of the first event.  Without an image
\* message as first event the response is 200 and no reply call is made;
\* otherwise nothing is sent while the reply call is pending, and the
\* response is 500 when the reply call failed and 200 when it succeeded.
C19_LineWebhookResponses ==
    entry = "function" =>
        /\ Len(sent) <= 1
        /\ Len(replyLog) <= 1
        /\ (phase = "fnResponded") = (Len(sent) = 1)
        /\ \A k \in DOMAIN replyLog :
              FirstIsImage /\ replyLog[k].replyToken = events[1].replyToken
        /\ (phase = "fnResponded" /\ ~FirstIsImage) =>
              sent[1].status = "200" /\ replyLog = <<>>
        /\ (phase = "fnResponded" /\ FirstIsImage) =>
              /\ Len(replyLog) = 1
              /\ (errorLog[1] = 0) = (sent[1].status = "200")
              /\ (errorLog[1] >= 1) = (sent[1].status = "500")

\* A request of two image messages was answered 500 after its one reply
\* call, made for the first event, had failed.
C19_Witness ==
    /\ entry = "function"
    /\ phase = "fnResponded"
    /\ Len(events) >= 2
    /\ events[2].type = "message" /\ events[2].message.type = "image"
    /\ sent = <<[status |-> "500", body |-> "Error"]>>
    /\ Len(replyLog) = 1 /\ replyLog[1].replyToken = events[1].replyToken

====
